---- MODULE Spec2Model ----
(***************************************************************************)
(* Model of scripts/convert_model.py: the command-line tool that downloads *)
(* super-resolution weight files, builds the architecture, loads the       *)
(* weights, exports an ONNX graph and verifies it.                         *)
(*                                                                         *)
(* The third-party calls (urlretrieve, torch.load, torch.onnx.export,      *)
(* onnx.checker) are modelled by their possible outcomes: each either      *)
(* completes or raises, chosen nondeterministically.                       *)
(***************************************************************************)
EXTENDS Integers, Sequences, FiniteSets, TLC

VARIABLES
    args,        \* the parsed command line (argparse namespace)
    missing,     \* the packages that are not installed
    fs,          \* the files on disk: records [dir, name, ext, data]
    dirs,        \* the directories that exist
    fs0,         \* the files on disk when the process started
    dirs0,       \* the directories when the process started
    pc,          \* the statement the process is at
    result,      \* how the process ended: running, returned, exit1, raised
    exc,         \* the exception that ended the process, if any
    output_dir,  \* main's local output_dir
    idx,         \* position of the --all loop in MODELS.keys()
    model_name,  \* convert_to_onnx's argument
    pth_path,    \* download_model's return value
    ret,         \* convert_to_onnx's last return value
    calls,       \* the model names convert_to_onnx was called with
    outcomes,    \* how each of those calls ended ("ok" or the exception)
    trace,       \* the stages the current call has started
    fetches,     \* the URLs handed to urlretrieve
    verified,    \* the models whose graph passed onnx.checker.check_model
    out,         \* the lines printed that the claims are about
    faults       \* the environment failures injected so far

vars == <<args, missing, fs, dirs, fs0, dirs0, pc, result, exc, output_dir,
          idx, model_name, pth_path, ret, calls, outcomes, trace, fetches,
          verified, out, faults>>

\* Bound on the number of third-party failures in one run.
MaxFaults == 2

----------------------------------------------------------------------------
(* The configuration table and its iteration order.                        *)

Order ==
    << "realesrgan-anime-fast", "realesrgan-anime-plus",
       "realesrgan-general-fast", "realesrgan-general-plus",
       "realcugan-2x", "realcugan-4x" >>

Keys == { Order[i] : i \in 1..Len(Order) }

MODELS_NoNumConv ==
    [ k \in Keys |->
        CASE k = "realesrgan-anime-fast" ->
               [ url |-> "v0.2.5.0/realesr-animevideov3.pth", scale |-> 4,
                 arch |-> "SRVGGNetCompact", num_feat |-> 64, num_conv |-> 16,
                 description |-> "Real-ESRGAN Anime Fast" ]
          [] k = "realesrgan-anime-plus" ->
               [ url |-> "v0.2.2.4/RealESRGAN_x4plus_anime_6B.pth", scale |-> 4,
                 arch |-> "RRDBNet", num_feat |-> 64, num_block |-> 6,
                 description |-> "Real-ESRGAN Anime Plus" ]
          [] k = "realesrgan-general-fast" ->
               [ url |-> "v0.2.5.0/realesr-general-x4v3.pth", scale |-> 4,
                 arch |-> "SRVGGNetCompact", num_feat |-> 64,
                 description |-> "Real-ESRGAN General Fast" ]
          [] k = "realesrgan-general-plus" ->
               [ url |-> "v0.1.0/RealESRGAN_x4plus.pth", scale |-> 4,
                 arch |-> "RRDBNet", num_feat |-> 64, num_block |-> 23,
                 description |-> "Real-ESRGAN General Plus" ]
          [] k = "realcugan-2x" ->
               [ url |-> "Real-CUGAN/up2x-latest-denoise3x.pth", scale |-> 2,
                 arch |-> "CUGAN", pro |-> FALSE,
                 description |-> "Real-CUGAN 2x" ]
          [] k = "realcugan-4x" ->
               [ url |-> "Real-CUGAN/up4x-latest-denoise3x.pth", scale |-> 4,
                 arch |-> "CUGAN", pro |-> FALSE,
                 description |-> "Real-CUGAN 4x" ] ]

MODELS ==
    [ k \in Keys |->
        CASE k = "realesrgan-anime-fast" ->
               [ url |-> "v0.2.5.0/realesr-animevideov3.pth", scale |-> 4,
                 arch |-> "SRVGGNetCompact", num_feat |-> 64, num_conv |-> 16,
                 description |-> "Real-ESRGAN Anime Fast" ]
          [] k = "realesrgan-anime-plus" ->
               [ url |-> "v0.2.2.4/RealESRGAN_x4plus_anime_6B.pth", scale |-> 4,
                 arch |-> "RRDBNet", num_feat |-> 64, num_block |-> 6,
                 description |-> "Real-ESRGAN Anime Plus" ]
          [] k = "realesrgan-general-fast" ->
               [ url |-> "v0.2.5.0/realesr-general-x4v3.pth", scale |-> 4,
                 arch |-> "SRVGGNetCompact", num_feat |-> 64, num_conv |-> 32,
                 description |-> "Real-ESRGAN General Fast" ]
          [] k = "realesrgan-general-plus" ->
               [ url |-> "v0.1.0/RealESRGAN_x4plus.pth", scale |-> 4,
                 arch |-> "RRDBNet", num_feat |-> 64, num_block |-> 23,
                 description |-> "Real-ESRGAN General Plus" ]
          [] k = "realcugan-2x" ->
               [ url |-> "Real-CUGAN/up2x-latest-denoise3x.pth", scale |-> 2,
                 arch |-> "CUGAN", pro |-> FALSE,
                 description |-> "Real-CUGAN 2x" ]
          [] k = "realcugan-4x" ->
               [ url |-> "Real-CUGAN/up4x-latest-denoise3x.pth", scale |-> 4,
                 arch |-> "CUGAN", pro |-> FALSE,
                 description |-> "Real-CUGAN 4x" ] ]

\* info[key] of a Python dict: the keys an entry has.
HasKeys(info, ks) == ks \subseteq DOMAIN info

----------------------------------------------------------------------------
(* Paths. A directory is the sequence of its components; a file is a       *)
(* directory, a stem and an extension.                                     *)

ScriptFile == << "repo", "scripts", "convert_model.py" >>

\* os.path.dirname
Dirname(p) == IF Len(p) = 0 THEN p ELSE SubSeq(p, 1, Len(p) - 1)

\* os.path.join(output_dir, f'{model_name}.<ext>')
PathOf(dir, name, ext) == [ dir |-> dir, name |-> name, ext |-> ext ]

PathOfFile(f) == PathOf(f.dir, f.name, f.ext)

\* os.path.exists
Exists(files, p) == \E f \in files : PathOfFile(f) = p

File(p, data) == [ dir |-> p.dir, name |-> p.name, ext |-> p.ext, data |-> data ]

\* Writing a file replaces what was at its path.
WriteFile(files, p, data) ==
    { f \in files : PathOfFile(f) # p } \cup { File(p, data) }

DefaultOutputDir == Dirname(Dirname(ScriptFile)) \o << "public", "models" >>

OutputDirIgnoringArg(a) == DefaultOutputDir

\* main: "if args.output_dir: ... else: ..." (None and '' are both falsy)
OutputDirOf(a) ==
    IF a.output_dir.given /\ a.output_dir.value # << >>
    THEN a.output_dir.value
    ELSE DefaultOutputDir

PthPathOf(dir, name) == PathOf(dir, name, "pth")

OnnxPathOf(dir, name) == PathOf(dir, name, "onnx")

----------------------------------------------------------------------------
(* The inputs: command lines, installed packages, the disk at start.       *)

Deps == { "torch", "basicsr", "realesrgan", "onnx" }

NoModel == "None"

OutputDirArgs ==
    { [ given |-> FALSE, value |-> << >> ],
      [ given |-> TRUE,  value |-> << >> ],
      [ given |-> TRUE,  value |-> << "out" >> ] }

\* With --all (and no --list) the positional model is never read: two
\* values of it are enough there.
CommandLines ==
    { a \in [ model : Keys \cup { NoModel }, all : BOOLEAN, list : BOOLEAN,
              output_dir : OutputDirArgs ] :
        (a.all /\ ~a.list) => a.model \in { NoModel, Order[1] } }

MissingSets == { {} } \cup { { d } : d \in Deps }

\* Weight files left by an earlier run: none, one, or all of them, in one
\* directory.
CachedSets == { {} } \cup { { k } : k \in Keys } \cup { Keys }

CacheDirs == { DefaultOutputDir, << "out" >> }

InitialDisks ==
    { { File(PthPathOf(d, k), "weights") : k \in c } :
        d \in CacheDirs, c \in CachedSets }

Init ==
    /\ args \in CommandLines
    /\ missing \in MissingSets
    /\ fs \in InitialDisks
    /\ dirs = { f.dir : f \in fs }
    /\ fs0 = fs
    /\ dirs0 = dirs
    /\ pc = "import"
    /\ result = "running"
    /\ exc = "none"
    /\ output_dir = << >>
    /\ idx = 0
    /\ model_name = NoModel
    /\ pth_path = PathOf(<< >>, NoModel, "none")
    /\ ret = PathOf(<< >>, NoModel, "none")
    /\ calls = << >>
    /\ outcomes = << >>
    /\ trace = << >>
    /\ fetches = << >>
    /\ verified = {}
    /\ out = << >>
    /\ faults = 0

----------------------------------------------------------------------------
(* Control flow of main and of the --all loop.                             *)

DispatchAllFirst(a) ==
    IF a.all THEN "all"
    ELSE IF a.list THEN "list"
    ELSE IF a.model # NoModel THEN "single"
    ELSE "help"

\* main: the order of "if args.list", "if args.all", "if args.model".
Dispatch(a) ==
    IF a.list THEN "list"
    ELSE IF a.all THEN "all"
    ELSE IF a.model # NoModel THEN "single"
    ELSE "help"

HandlerOnlyNotImplemented(e) ==
    IF e = "NotImplementedError" THEN "Skipping" ELSE "propagate"

\* The --all loop's except clauses. Every exception a conversion raises is
\* an Exception, so the second clause takes whatever the first does not.
Handler(e) ==
    IF e = "NotImplementedError" THEN "Skipping" ELSE "Error converting"

Line(kind, name) == [ kind |-> kind, name |-> name ]

Propagate(e) ==
    /\ result' = "raised"
    /\ exc' = e
    /\ pc' = "done"
    /\ UNCHANGED << out, idx >>

RaiseAlwaysHandled(name, e) ==
    /\ outcomes' = Append(outcomes, e)
    /\ out' = Append(out, Line(Handler(e), name))
    /\ IF Dispatch(args) = "all"
       THEN idx' = idx + 1 /\ pc' = "loop" /\ UNCHANGED << result, exc >>
       ELSE idx' = idx /\ pc' = "done" /\ result' = "returned" /\ exc' = exc

\* convert_to_onnx(name) raises e: caught by the --all loop, which goes on
\* with the next key; not caught in the single-model path.
Raise(name, e) ==
    /\ outcomes' = Append(outcomes, e)
    /\ IF Dispatch(args) = "all" /\ Handler(e) # "propagate"
       THEN /\ out' = Append(out, Line(Handler(e), name))
            /\ idx' = idx + 1
            /\ pc' = "loop"
            /\ UNCHANGED << result, exc >>
       ELSE Propagate(e)

\* convert_to_onnx returns: the loop goes on, the single-model path returns.
Return ==
    /\ outcomes' = Append(outcomes, "ok")
    /\ out' = out
    /\ IF Dispatch(args) = "all"
       THEN idx' = idx + 1 /\ pc' = "loop" /\ UNCHANGED << result, exc >>
       ELSE idx' = idx /\ pc' = "done" /\ result' = "returned" /\ exc' = exc

Pipeline == << "download", "create", "load", "export", "verify" >>

NextStageSkipsBack(stage) ==
    CASE stage = "download" -> "create"
      [] stage = "create"   -> "load"
      [] stage = "load"     -> "export"
      [] stage = "export"   -> "download"
      [] OTHER              -> "done"

\* The statement order inside convert_to_onnx.
NextStage(stage) ==
    CASE stage = "download" -> "create"
      [] stage = "create"   -> "load"
      [] stage = "load"     -> "export"
      [] stage = "export"   -> "verify"
      [] OTHER              -> "done"

\* A stage completed: go on with the next statement.
Advance(stage) ==
    /\ pc' = NextStage(stage)
    /\ UNCHANGED << outcomes, out, idx, result, exc >>

\* The head of convert_to_onnx: look the entry up, print the banner.
CallConvert(name) ==
    /\ calls' = Append(calls, name)
    /\ model_name' = name
    /\ trace' = << >>
    /\ IF HasKeys(MODELS[name], { "description", "scale" })
       THEN /\ pc' = Pipeline[1]
            /\ UNCHANGED << outcomes, out, idx, result, exc >>
       ELSE Raise(name, "KeyError")

\* Module level: import torch, then the guarded imports of basicsr and
\* realesrgan.
ImportModules ==
    /\ pc = "import"
    /\ IF "torch" \in missing
       THEN /\ result' = "raised" /\ exc' = "ImportError" /\ pc' = "done"
            /\ out' = out
       ELSE IF missing \cap { "basicsr", "realesrgan" } # {}
       THEN /\ result' = "exit1" /\ exc' = "SystemExit" /\ pc' = "done"
            /\ out' = Append(out, Line("install", ""))
       ELSE /\ pc' = "main"
            /\ UNCHANGED << result, exc, out >>
    /\ UNCHANGED << args, missing, fs, dirs, fs0, dirs0, output_dir, idx,
                    model_name, pth_path, ret, calls, outcomes, trace,
                    fetches, verified, faults >>

\* --list: one entry per item of MODELS, in its order.
ListLines == [ i \in 1..Len(Order) |-> Line("entry", Order[i]) ]

ListReadable ==
    \A k \in Keys : HasKeys(MODELS[k], { "scale", "arch", "description" })

\* main up to its first call of convert_to_onnx or its return.
Main ==
    /\ pc = "main"
    /\ output_dir' = OutputDirOf(args)
    /\ CASE Dispatch(args) = "list" ->
              /\ IF ListReadable
                 THEN /\ out' = out \o ListLines
                      /\ result' = "returned" /\ exc' = exc
                 ELSE /\ out' = out
                      /\ result' = "raised" /\ exc' = "KeyError"
              /\ pc' = "done"
              /\ UNCHANGED << idx, model_name, calls, outcomes, trace >>
         [] Dispatch(args) = "all" ->
              /\ pc' = "loop"
              /\ idx' = 1
              /\ UNCHANGED << out, result, exc, model_name, calls, outcomes,
                              trace >>
         [] Dispatch(args) = "single" ->
              CallConvert(args.model)
         [] OTHER ->
              /\ out' = Append(out, Line("help", ""))
              /\ result' = "returned"
              /\ pc' = "done"
              /\ UNCHANGED << exc, idx, model_name, calls, outcomes, trace >>
    /\ UNCHANGED << args, missing, fs, dirs, fs0, dirs0, pth_path, ret,
                    fetches, verified, faults >>

\* for model_name in MODELS.keys(): try: convert_to_onnx(...)
Loop ==
    /\ pc = "loop"
    /\ IF idx <= Len(Order)
       THEN CallConvert(Order[idx])
       ELSE /\ result' = "returned"
            /\ pc' = "done"
            /\ UNCHANGED << exc, idx, model_name, calls, outcomes, trace, out >>
    /\ UNCHANGED << args, missing, fs, dirs, fs0, dirs0, output_dir, pth_path,
                    ret, fetches, verified, faults >>

----------------------------------------------------------------------------
(* The stages of convert_to_onnx.                                          *)

Frame == << args, missing, fs0, dirs0, output_dir, model_name, calls >>

\* os.makedirs(d, exist_ok=True) creates d and every missing parent.
WithParents(d) == { SubSeq(d, 1, n) : n \in 1..Len(d) }

NeedsFetchAlways(files, p) == TRUE

\* download_model: "if not os.path.exists(pth_path)"
NeedsFetch(files, p) == ~Exists(files, p)

\* download_model(model_name, output_dir)
Download ==
    /\ pc = "download"
    /\ trace' = Append(trace, "download")
    /\ LET p == PthPathOf(output_dir, model_name)
           info == MODELS[model_name]
       IN  \/ \* makedirs cannot create the directory
              /\ output_dir \notin dirs
              /\ faults < MaxFaults
              /\ faults' = faults + 1
              /\ Raise(model_name, "OSError")
              /\ UNCHANGED << fs, dirs, fetches, pth_path >>
           \/ \* the weight file is there already
              /\ ~NeedsFetch(fs, p)
              /\ dirs' = dirs \cup WithParents(output_dir)
              /\ pth_path' = p
              /\ Advance("download")
              /\ UNCHANGED << fs, fetches, faults >>
           \/ \* the entry has no url to print and fetch
              /\ NeedsFetch(fs, p)
              /\ ~HasKeys(info, { "url" })
              /\ dirs' = dirs \cup WithParents(output_dir)
              /\ Raise(model_name, "KeyError")
              /\ UNCHANGED << fs, fetches, faults, pth_path >>
           \/ \* urlretrieve stores the file
              /\ NeedsFetch(fs, p)
              /\ HasKeys(info, { "url" })
              /\ dirs' = dirs \cup WithParents(output_dir)
              /\ fetches' = Append(fetches, info.url)
              /\ fs' = WriteFile(fs, p, "weights")
              /\ pth_path' = p
              /\ Advance("download")
              /\ UNCHANGED faults
           \/ \* urlretrieve raises, before or after it opened the file
              /\ NeedsFetch(fs, p)
              /\ HasKeys(info, { "url" })
              /\ faults < MaxFaults
              /\ faults' = faults + 1
              /\ dirs' = dirs \cup WithParents(output_dir)
              /\ fetches' = Append(fetches, info.url)
              /\ \/ fs' = fs
                 \/ fs' = WriteFile(fs, p, "partial")
              /\ Raise(model_name, "URLError")
              /\ UNCHANGED pth_path
    /\ UNCHANGED << Frame, ret, verified >>

\* create_model's result for one entry of the table.
CreateModelOutcome(info) ==
    IF ~HasKeys(info, { "arch" }) THEN "KeyError"
    ELSE IF info.arch = "SRVGGNetCompact"
    THEN IF HasKeys(info, { "num_feat", "num_conv", "scale" })
         THEN "ok" ELSE "KeyError"
    ELSE IF info.arch = "RRDBNet"
    THEN IF HasKeys(info, { "num_feat", "num_block", "scale" })
         THEN "ok" ELSE "KeyError"
    ELSE IF info.arch = "CUGAN" THEN "NotImplementedError"
    ELSE "ValueError"

\* create_model(model_name)
Create ==
    /\ pc = "create"
    /\ trace' = Append(trace, "create")
    /\ LET o == CreateModelOutcome(MODELS[model_name])
       IN  IF o = "ok" THEN Advance("create") ELSE Raise(model_name, o)
    /\ UNCHANGED << Frame, fs, dirs, fetches, pth_path, ret, verified, faults >>

\* torch.load and load_state_dict(strict=True)
Load ==
    /\ pc = "load"
    /\ trace' = Append(trace, "load")
    /\ \/ /\ Advance("load")
          /\ UNCHANGED faults
       \/ /\ faults < MaxFaults
          /\ faults' = faults + 1
          /\ Raise(model_name, "RuntimeError")
    /\ UNCHANGED << Frame, fs, dirs, fetches, pth_path, ret, verified >>

\* torch.onnx.export(model, dummy_input, onnx_path, ...)
Export ==
    /\ pc = "export"
    /\ trace' = Append(trace, "export")
    /\ LET p == OnnxPathOf(output_dir, model_name)
       IN  \/ \* a well-formed graph is written
              /\ fs' = WriteFile(fs, p, "graph")
              /\ Advance("export")
              /\ UNCHANGED faults
           \/ \* a graph the checker will reject is written
              /\ faults < MaxFaults
              /\ faults' = faults + 1
              /\ fs' = WriteFile(fs, p, "malformed")
              /\ Advance("export")
           \/ \* export raises, before or after it opened the file
              /\ faults < MaxFaults
              /\ faults' = faults + 1
              /\ \/ fs' = fs
                 \/ fs' = WriteFile(fs, p, "partial")
              /\ Raise(model_name, "ExportError")
    /\ UNCHANGED << Frame, dirs, fetches, pth_path, ret, verified >>

\* import onnx; onnx.load; onnx.checker.check_model; return onnx_path
Verify ==
    /\ pc = "verify"
    /\ trace' = Append(trace, "verify")
    /\ LET p == OnnxPathOf(output_dir, model_name)
       IN  IF "onnx" \in missing
           THEN /\ Raise(model_name, "ImportError")
                /\ UNCHANGED << ret, verified >>
           ELSE IF File(p, "graph") \in fs
           THEN /\ verified' = verified \cup { model_name }
                /\ ret' = p
                /\ Return
           ELSE /\ Raise(model_name, "ValidationError")
                /\ UNCHANGED << ret, verified >>
    /\ UNCHANGED << Frame, fs, dirs, fetches, pth_path, faults >>

Next ==
    \/ ImportModules
    \/ Main
    \/ Loop
    \/ Download
    \/ Create
    \/ Load
    \/ Export
    \/ Verify

Spec == Init /\ [][Next]_vars

----------------------------------------------------------------------------
(* Properties.                                                             *)

IsPrefix(s, t) == Len(s) <= Len(t) /\ s = SubSeq(t, 1, Len(s))

Stages == { Pipeline[i] : i \in 1..Len(Pipeline) }

\* The module-level imports went through, so main runs.
Imported == missing \cap { "torch", "basicsr", "realesrgan" } = {}

MainRan == Imported /\ pc \notin { "import", "main" }

ListPath == args.list

AllPath == ~args.list /\ args.all

SinglePath == ~args.list /\ ~args.all /\ args.model # NoModel

IsCugan(name) == name \in { "realcugan-2x", "realcugan-4x" }

CurrentPth == PthPathOf(output_dir, model_name)

\* C1: a weight file that is already at <output_dir>/<model_name>.pth when
\* download_model runs is not fetched again: the call hands no URL to
\* urlretrieve, leaves the disk as it is and returns that path; a URL (the
\* model's own) is fetched only by a download_model call that finds no file
\* at that path.
C1_CachedNotRefetched ==
    [][ /\ (pc = "download" /\ Exists(fs, CurrentPth))
            => /\ fetches' = fetches
               /\ fs' = fs
               /\ pth_path' = CurrentPth
               /\ pc' = "create"
        /\ (fetches' # fetches)
            => /\ pc = "download"
               /\ ~Exists(fs, CurrentPth)
               /\ fetches' = Append(fetches, MODELS[model_name].url) ]_vars

\* download_model has returned for a model whose weight file was on disk
\* from the start, and nothing was fetched.
C1_Witness ==
    /\ pc = "create"
    /\ trace = << "download" >>
    /\ File(CurrentPth, "weights") \in fs0
    /\ pth_path = CurrentPth
    /\ fetches = << >>

\* C2: in the --all path the loop attempts the keys of MODELS in table
\* order, each once, whatever the earlier conversions did; every failed
\* conversion is reported by one printed line; the process never ends by an
\* exception there, and when main has returned every key was attempted.
C2_AllContinues ==
    (AllPath /\ MainRan) =>
        /\ IsPrefix(calls, Order)
        /\ result \in { "running", "returned" }
        /\ pc = "loop" => Len(calls) = idx - 1 /\ Len(outcomes) = idx - 1
        /\ Len(out) = Cardinality({ i \in DOMAIN outcomes : outcomes[i] # "ok" })
        /\ \A i \in DOMAIN outcomes :
              outcomes[i] # "ok" =>
                  \E j \in DOMAIN out :
                      out[j].name = calls[i]
                      /\ out[j].kind \in { "Skipping", "Error converting" }
        /\ pc = "done" =>
              result = "returned" /\ calls = Order /\ Len(outcomes) = Len(Order)

\* An --all run that returned after a conversion failed with an error, a
\* later one succeeded, and the Real-CUGAN ones were skipped.
C2_Witness ==
    /\ AllPath
    /\ result = "returned"
    /\ calls = Order
    /\ \E i, j \in DOMAIN outcomes :
          i < j /\ outcomes[i] \notin { "ok", "NotImplementedError" }
                /\ outcomes[j] = "ok"
    /\ outcomes[Len(Order)] = "NotImplementedError"

\* C3: every conversion request for realcugan-2x or realcugan-4x ends by
\* raising NotImplementedError, whatever the disk and the network do; the
\* --all loop reports it as "Skipping <name>", and no <name>.onnx is written.
C3_CuganNotImplemented ==
    \A i \in DOMAIN outcomes :
        IsCugan(calls[i]) =>
            /\ outcomes[i] = "NotImplementedError"
            /\ AllPath => \E j \in DOMAIN out :
                              out[j] = Line("Skipping", calls[i])
            /\ ~\E f \in fs : f.ext = "onnx" /\ f.name = calls[i]

\* C4: when one of torch, basicsr, realesrgan, onnx is missing, the process
\* ends at once by exit with the install message, and before that no
\* directory is created, no weight file is fetched and no file is written.
C4_MissingDependencyFatal ==
    missing # {} =>
        /\ fs = fs0
        /\ dirs = dirs0
        /\ fetches = << >>
        /\ calls = << >>
        /\ pc # "import" =>
              /\ pc = "done"
              /\ result = "exit1"
              /\ out = << Line("install", "") >>

\* C5: with --list, main prints one entry for every key of MODELS and
\* nothing else, each once and in table order, and returns; it converts
\* nothing, fetches nothing and leaves the disk alone, also when --all or
\* a model name is on the command line.
C5_ListExactlyKeys ==
    (ListPath /\ Imported) =>
        /\ calls = << >>
        /\ fetches = << >>
        /\ fs = fs0
        /\ dirs = dirs0
        /\ pc \in { "import", "main", "done" }
        /\ pc = "done" =>
              /\ result = "returned"
              /\ Len(out) = Len(Order)
              /\ \A i \in DOMAIN out :
                    out[i].kind = "entry" /\ out[i].name = Order[i]
              /\ { out[i].name : i \in DOMAIN out } = DOMAIN MODELS

\* --list together with --all and a model name: the list was printed and
\* main returned.
C5_Witness ==
    /\ args.list /\ args.all /\ args.model # NoModel
    /\ pc = "done"
    /\ result = "returned"
    /\ Len(out) = Len(Order)

\* <parent of the script's directory>/public/models
ExpectedDefaultDir == << "repo", "public", "models" >>

\* What C6 says of the files: a conversion that returned left its
\* <output_dir>/<name>.onnx and returned that path, and every .onnx file on
\* disk is in output_dir under the name of a model that was converted.
C6_Artifacts ==
    /\ \A i \in DOMAIN outcomes :
          outcomes[i] = "ok" =>
              Exists(fs, [ dir |-> output_dir, name |-> calls[i], ext |-> "onnx" ])
    /\ (outcomes # << >> /\ outcomes[Len(outcomes)] = "ok") =>
          ret = [ dir |-> output_dir, name |-> calls[Len(outcomes)], ext |-> "onnx" ]
    /\ \A f \in fs :
          f.ext = "onnx" =>
              f.dir = output_dir /\ \E i \in DOMAIN calls : calls[i] = f.name

\* C6 (as stated): output_dir is the --output-dir value whenever one is
\* given and <parent of the script's directory>/public/models otherwise;
\* each conversion that returns leaves <output_dir>/<name>.onnx and returns
\* that path, and no other .onnx file is written.
C6_OutputDirAsGiven ==
    MainRan =>
        /\ args.output_dir.given => output_dir = args.output_dir.value
        /\ ~args.output_dir.given => output_dir = ExpectedDefaultDir
        /\ C6_Artifacts

\* C6 (amended): output_dir is the --output-dir value when a non-empty one
\* is given, and <parent of the script's directory>/public/models when
\* none or the empty string is given; each conversion that returns leaves
\* <output_dir>/<name>.onnx and returns that path, and no other .onnx file
\* is written.
C6_OutputDirNonEmpty ==
    MainRan =>
        /\ (args.output_dir.given /\ args.output_dir.value # << >>)
              => output_dir = args.output_dir.value
        /\ (~args.output_dir.given \/ args.output_dir.value = << >>)
              => output_dir = ExpectedDefaultDir
        /\ C6_Artifacts

\* A conversion returned with --output-dir out: its file is in out.
C6_Witness ==
    /\ args.output_dir.given
    /\ args.output_dir.value = << "out" >>
    /\ outcomes # << >>
    /\ outcomes[Len(outcomes)] = "ok"
    /\ ret = [ dir |-> << "out" >>, name |-> calls[Len(outcomes)], ext |-> "onnx" ]
    /\ File(ret, "graph") \in fs

\* C7: every entry of MODELS has url, scale, arch and description, an
\* SRVGGNetCompact entry has num_feat and num_conv, an RRDBNet entry has
\* num_feat and num_block, every arch is one of the three known ones; and
\* no conversion ends with KeyError or the unknown-architecture ValueError.
C7_TableWellFormed ==
    /\ \A k \in DOMAIN MODELS :
          LET info == MODELS[k] IN
          /\ { "url", "scale", "arch", "description" } \subseteq DOMAIN info
          /\ info.arch \in { "SRVGGNetCompact", "RRDBNet", "CUGAN" }
          /\ info.arch = "SRVGGNetCompact"
                => { "num_feat", "num_conv" } \subseteq DOMAIN info
          /\ info.arch = "RRDBNet"
                => { "num_feat", "num_block" } \subseteq DOMAIN info
    /\ \A i \in DOMAIN outcomes : outcomes[i] \notin { "KeyError", "ValueError" }
    /\ exc \notin { "KeyError", "ValueError" }

\* create_model has run for every key: it built the four Real-ESRGAN
\* architectures and raised NotImplementedError for the two Real-CUGAN ones.
C7_Witness ==
    /\ calls = Order
    /\ Len(outcomes) = Len(Order)
    /\ \A i \in DOMAIN outcomes :
          outcomes[i] = IF IsCugan(calls[i]) THEN "NotImplementedError" ELSE "ok"

\* C8: in the single-model path whatever convert_to_onnx raises, the
\* NotImplementedError of the Real-CUGAN models included, leaves main
\* uncaught: the process ends by that exception, not by returning, and
\* nothing is reported as skipped or failed.
C8_SingleNotCaught ==
    (SinglePath /\ outcomes # << >> /\ outcomes[1] # "ok") =>
        /\ result = "raised"
        /\ exc = outcomes[1]
        /\ pc = "done"
        /\ calls = << args.model >>
        /\ out = << >>

\* A single-model run of a Real-CUGAN model ended by NotImplementedError.
C8_Witness ==
    /\ SinglePath
    /\ IsCugan(args.model)
    /\ outcomes = << "NotImplementedError" >>
    /\ result = "raised"

\* C9: within one convert_to_onnx call the stages start in the order
\* download, create, load, export, verify, each at most once; a stage starts
\* only in a call that has not ended and after all earlier stages completed;
\* once a stage fails the call is over and no stage of it runs again; a call
\* that returned ran all five.
C9_LinearPipeline ==
    /\ [](/\ IsPrefix(trace, Pipeline)
          /\ pc \in Stages =>
                /\ Len(calls) = Len(outcomes) + 1
                /\ pc = Pipeline[Len(trace) + 1]
          /\ pc \notin Stages => Len(calls) = Len(outcomes)
          /\ (pc \notin Stages /\ outcomes # << >>
                /\ outcomes[Len(outcomes)] = "ok") => trace = Pipeline)
    /\ [][ /\ (trace' # trace) =>
                \/ trace' = << >> /\ calls' = Append(calls, model_name')
                \/ /\ pc \in Stages
                   /\ trace' = Append(trace, pc)
                   /\ calls' = calls
           /\ (outcomes' # outcomes) => pc' \notin Stages ]_vars

\* An --all run in which one conversion failed at the weight load and the
\* next one ran all five stages and returned.
C9_Witness ==
    /\ AllPath
    /\ Len(outcomes) = 2
    /\ outcomes[1] = "RuntimeError"
    /\ outcomes[2] = "ok"
    /\ trace = Pipeline

\* C10: when the run is over, every <name>.onnx file on disk holds a graph
\* that passed onnx.checker.check_model in the call that wrote it.
C10_OnlyVerifiedArtifacts ==
    pc = "done" =>
        \A f \in fs : f.ext = "onnx" => f.name \in verified /\ f.data = "graph"

====
